---- MODULE Spec2Model ----
(***************************************************************************)
(* Model of assets/icon/generate_icons.py: the icon renderer               *)
(* (draw_notebook, draw_lock_badge), the three generators and main().      *)
(*                                                                         *)
(* An image is the canvas Image.new creates plus the ordered list of the   *)
(* shapes ImageDraw painted on it; a pixel's value is the ink of the last  *)
(* shape that covers it, or the canvas colour when none does (ImageDraw    *)
(* overwrites, it does not blend).  Python's int(n * c) is computed on the *)
(* IEEE-754 double nearest to c, with the product rounded to 53 bits       *)
(* (round-half-even) before truncation.                                    *)
(***************************************************************************)
EXTENDS Integers, Sequences, FiniteSets, TLC

VARIABLES
    pc,        \* position of the script run
    pillow,    \* whether "from PIL import Image, ImageDraw" succeeds here
    splashDir, \* what is at <script_dir>/../splash: "absent", "dir", "file"
    files,     \* path -> content, for every path that holds a file
    written,   \* paths the current run has saved, in order
    stdout,    \* lines the current run has printed
    exitCode,  \* exit status of the current run, -1 while it runs
    failure,   \* the step of the current run that raised, and what it raised
    runs,      \* number of script runs started
    snapshot,  \* the filesystem when the current run started, and how the
               \* run before it ended
    first,     \* first generator call made by an importing caller
    last,      \* most recent generator call made by an importing caller
    ncalls,    \* number of generator calls made
    badge      \* a direct draw_lock_badge call on a caller's canvas

vars == <<pc, pillow, splashDir, files, written, stdout, exitCode, failure,
          runs, snapshot, first, last, ncalls, badge>>

(***************************************************************************)
(* Bounds of the model.                                                    *)
(***************************************************************************)
MaxSize == 1030
MaxSmallSize == 8
MaxImageSize == 40
BigSize == 112
MaxCalls == 3
MaxRuns == 2
MaxBadge == 80
CanvasSide == 48

(***************************************************************************)
(* Colours (lines 15-18) and the incidental greys.                         *)
(***************************************************************************)
BG_COLOR == <<26, 26, 46>>
WHITE == <<255, 255, 255>>
GREEN == <<76, 175, 80>>
SPINE_GREY == <<200, 200, 200>>
LINE_GREY == <<230, 230, 230>>
TRANSPARENT == <<0, 0, 0, 0>>

(***************************************************************************)
(* IEEE-754 doubles.  A double literal c is M * 2^-q with M its 53-bit     *)
(* significand, kept as four 16-bit limbs, least significant first.        *)
(***************************************************************************)
Limb == 2^16

F_0_7 == [m |-> <<26214, 26214, 26214, 22>>, q |-> 53]
F_0_68 == [m |-> <<62915, 23592, 49807, 21>>, q |-> 53]
F_0_4 == [m |-> <<39322, 39321, 39321, 25>>, q |-> 54]
F_0_35 == [m |-> <<26214, 26214, 26214, 22>>, q |-> 54]
F_0_075 == [m |-> <<13107, 13107, 13107, 19>>, q |-> 56]
F_0_09 == [m |-> <<55050, 28835, 2621, 23>>, q |-> 56]
F_0_6 == [m |-> <<13107, 13107, 13107, 19>>, q |-> 53]

\* n * m as limbs (one limb longer than m), n a small non-negative integer.
RECURSIVE MulLimbs(_, _, _, _)
MulLimbs(n, m, i, carry) ==
    IF i > Len(m) THEN <<carry>>
    ELSE LET t == n * m[i] + carry
         IN  <<t % Limb>> \o MulLimbs(n, m, i + 1, t \div Limb)

\* p + d * Limb^(i-1), carries propagated; p is long enough to hold the sum.
RECURSIVE AddLimbs(_, _, _)
AddLimbs(p, i, d) ==
    IF i > Len(p) THEN <<>>
    ELSE LET t == p[i] + d
         IN  <<t % Limb>> \o AddLimbs(p, i + 1, t \div Limb)

RECURSIVE BitLenInt(_)
BitLenInt(v) == IF v = 0 THEN 0 ELSE 1 + BitLenInt(v \div 2)

RECURSIVE BitLen(_, _)
BitLen(p, i) ==
    IF i = 0 THEN 0
    ELSE IF p[i] # 0 THEN 16 * (i - 1) + BitLenInt(p[i])
    ELSE BitLen(p, i - 1)

\* The exact product p rounded to 53 significant bits, ties to even: the
\* double that n * c evaluates to, still scaled by 2^q.
RoundDouble(p) ==
    LET drop == BitLen(p, Len(p)) - 53
    IN  IF drop <= 0 THEN p
        ELSE LET unit == 2^drop
                 low == p[1] % unit
                 half == unit \div 2
                 odd == (p[1] \div unit) % 2 = 1
                 up == low > half \/ (low = half /\ odd)
                 cleared == [p EXCEPT ![1] = @ - low]
             IN  IF up THEN AddLimbs(cleared, 1, unit) ELSE cleared

\* int(n * c) for an int n >= 0 and a double literal c.
IntMul(n, c) ==
    IF n = 0 THEN 0
    ELSE LET r == RoundDouble(MulLimbs(n, c.m, 1, 0))
         IN  (r[4] + r[5] * Limb) \div 2^(c.q - 48)

(***************************************************************************)
(* Pillow: Image.new and the ImageDraw primitives the script calls.        *)
(***************************************************************************)
\* Image.new(mode, (size, size), color): a fresh canvas, nothing painted.
ImageNew(mode, size, color) ==
    [mode |-> mode, size |-> size, bg |-> color, shapes |-> <<>>]

\* The ink ImageDraw makes of an RGB fill: on an RGBA image alpha is 255.
Ink(mode, rgb) == IF mode = "RGBA" THEN rgb \o <<255>> ELSE rgb

Shape(kind, x0, y0, x1, y1, ink, width) ==
    [kind |-> kind, x0 |-> x0, y0 |-> y0, x1 |-> x1, y1 |-> y1,
     ink |-> ink, width |-> width]

Paint(img, sh) == [img EXCEPT !.shapes = Append(@, sh)]

\* draw.rectangle([x0, y0, x1, y1], fill=color): both corners included.
Rectangle(img, x0, y0, x1, y1, color) ==
    Paint(img, Shape("rect", x0, y0, x1, y1, Ink(img.mode, color), 0))

\* draw.ellipse([x0, y0, x1, y1], fill=color).
Ellipse(img, x0, y0, x1, y1, color) ==
    Paint(img, Shape("ellipse", x0, y0, x1, y1, Ink(img.mode, color), 0))

\* draw.arc([x0, y0, x1, y1], 180, 0, fill=color, width=width).
Arc(img, x0, y0, x1, y1, color, width) ==
    Paint(img, Shape("arc", x0, y0, x1, y1, Ink(img.mode, color), width))

InBox(x0, y0, x1, y1, px, py) ==
    x0 <= px /\ px <= x1 /\ y0 <= py /\ py <= y1

\* The pixels of the ellipse inscribed in the box (a box of one pixel is
\* that pixel).
InEllipse(x0, y0, x1, y1, px, py) ==
    /\ InBox(x0, y0, x1, y1, px, py)
    /\ LET a == x1 - x0
           b == y1 - y0
           dx == 2 * px - x0 - x1
           dy == 2 * py - y0 - y1
       IN  dx * dx * b * b + dy * dy * a * a <= a * a * b * b

\* Whether shape sh paints pixel (px, py).  An arc from 180 to 0 degrees is
\* the upper half of the ring of the given width along the ellipse.
Covers(sh, px, py) ==
    CASE sh.kind = "rect" -> InBox(sh.x0, sh.y0, sh.x1, sh.y1, px, py)
      [] sh.kind = "ellipse" -> InEllipse(sh.x0, sh.y0, sh.x1, sh.y1, px, py)
      [] sh.kind = "arc" ->
            /\ sh.width >= 1
            /\ 2 * py <= sh.y0 + sh.y1
            /\ InEllipse(sh.x0, sh.y0, sh.x1, sh.y1, px, py)
            /\ ~InEllipse(sh.x0 + sh.width, sh.y0 + sh.width,
                          sh.x1 - sh.width, sh.y1 - sh.width, px, py)

\* Index of the last shape painted over (px, py), 0 when there is none.
RECURSIVE TopShape(_, _, _, _)
TopShape(shapes, i, px, py) ==
    IF i = 0 THEN 0
    ELSE IF Covers(shapes[i], px, py) THEN i
    ELSE TopShape(shapes, i - 1, px, py)

Covered(img, px, py) == TopShape(img.shapes, Len(img.shapes), px, py) # 0

\* img.getpixel((px, py)).
PixelAt(img, px, py) ==
    LET i == TopShape(img.shapes, Len(img.shapes), px, py)
    IN  IF i = 0 THEN img.bg ELSE img.shapes[i].ink

Pixels(img) == (0 .. img.size - 1) \X (0 .. img.size - 1)

(***************************************************************************)
(* The renderer (lines 20-74).                                             *)
(***************************************************************************)
\* One page line of draw_notebook's loop, i in range(3).
PageLine(img, left, y, size, i) ==
    LET line_spacing == size \div 6
        line_width == IntMul(size, F_0_6)
        line_height == size \div 25
        line_y == y + (i - 1) * line_spacing
        line_left == left + size \div 5
    IN  Rectangle(img, line_left, line_y - line_height \div 2,
                  line_left + line_width, line_y + line_height \div 2,
                  LINE_GREY)

draw_notebook(img, x, y, size, color) ==
    LET left == x - size \div 2
        top == y - size \div 2
        right == x + size \div 2
        bottom == y + size \div 2
        spine_width == size \div 10
        body == Rectangle(img, left, top, right, bottom, color)
        spine == Rectangle(body, left, top, left + spine_width, bottom,
                           SPINE_GREY)
    IN  PageLine(PageLine(PageLine(spine, left, y, size, 0),
                          left, y, size, 1),
                 left, y, size, 2)

\* LockBody with the top a quarter of the badge size above the centre.
LockBodyQuarterSize(img, x, y, size) ==
    LET lock_width == size \div 2
        lock_height == IntMul(size, F_0_6)
        lock_left == x - lock_width \div 2
        lock_top == y - size \div 4
    IN  Rectangle(img, lock_left, lock_top, lock_left + lock_width,
                  lock_top + lock_height \div 2, WHITE)

\* The white lock body rectangle of draw_lock_badge (lines 53-61).
LockBody(img, x, y, size) ==
    LET lock_width == size \div 2
        lock_height == IntMul(size, F_0_6)
        lock_left == x - lock_width \div 2
        lock_top == y - lock_height \div 4
    IN  Rectangle(img, lock_left, lock_top, lock_left + lock_width,
                  lock_top + lock_height \div 2, WHITE)

\* The shackle arc (lines 63-68).
Shackle(img, x, y, size) ==
    LET lock_width == size \div 2
        lock_height == IntMul(size, F_0_6)
        shackle_size == lock_width \div 3
        shackle_thickness == size \div 7
    IN  Arc(img, x - shackle_size, y - lock_height \div 2 - shackle_size,
            x + shackle_size, y - lock_height \div 4, WHITE,
            shackle_thickness)

\* The keyhole (lines 70-74).
Keyhole(img, x, y, size) ==
    LET keyhole_size == size \div 8
    IN  Ellipse(img, x - keyhole_size, y - keyhole_size,
                x + keyhole_size, y + keyhole_size, GREEN)

\* draw_lock_badge with the keyhole painted before the lock body.
draw_lock_badge_keyhole_first(img, x, y, size) ==
    LET circle == Ellipse(img, x - size, y - size, x + size, y + size, GREEN)
    IN  Shackle(LockBody(Keyhole(circle, x, y, size), x, y, size),
                x, y, size)

draw_lock_badge(img, x, y, size) ==
    LET circle == Ellipse(img, x - size, y - size, x + size, y + size, GREEN)
    IN  Keyhole(Shackle(LockBody(circle, x, y, size), x, y, size),
                x, y, size)

(***************************************************************************)
(* The generators (lines 76-125).                                          *)
(***************************************************************************)
\* The badge centre rounded to nearest instead of truncated.
AppBadgeCenterRounded(size) == (7 * size + 5) \div 10

AppBadgeCenter(size) == IntMul(size, F_0_7)

SplashBadgeCenter(size) == IntMul(size, F_0_68)

AppCanvas(size) == ImageNew("RGB", size, BG_COLOR)

\* A foreground canvas filled with opaque black.
ForegroundCanvasOpaque(size) == ImageNew("RGBA", size, <<0, 0, 0, 255>>)

ForegroundCanvas(size) == ImageNew("RGBA", size, TRANSPARENT)

\* A canvas kept between calls: the caller's last image is drawn on again
\* when it has the size and the mode asked for.
SplashCanvasShared(size) ==
    IF last.img.mode = "RGBA" /\ last.img.size = size
    THEN last.img
    ELSE ImageNew("RGBA", size, TRANSPARENT)

SplashCanvas(size) == ImageNew("RGBA", size, TRANSPARENT)

generate_app_icon(size) ==
    LET notebook_size == IntMul(size, F_0_4)
        nb == draw_notebook(AppCanvas(size), size \div 2, size \div 2,
                            notebook_size, WHITE)
        badge_x == AppBadgeCenter(size)
        badge_y == AppBadgeCenter(size)
        badge_size == IntMul(size, F_0_075)
    IN  draw_lock_badge(nb, badge_x, badge_y, badge_size)

\* The foreground icon drawn with the splash icon's notebook proportion.
generate_foreground_icon_035(size) ==
    LET notebook_size == IntMul(size, F_0_35)
        nb == draw_notebook(ForegroundCanvas(size), size \div 2, size \div 2,
                            notebook_size, WHITE)
        badge_x == IntMul(size, F_0_7)
        badge_y == IntMul(size, F_0_7)
        badge_size == IntMul(size, F_0_075)
    IN  draw_lock_badge(nb, badge_x, badge_y, badge_size)

generate_foreground_icon(size) ==
    LET notebook_size == IntMul(size, F_0_4)
        nb == draw_notebook(ForegroundCanvas(size), size \div 2, size \div 2,
                            notebook_size, WHITE)
        badge_x == IntMul(size, F_0_7)
        badge_y == IntMul(size, F_0_7)
        badge_size == IntMul(size, F_0_075)
    IN  draw_lock_badge(nb, badge_x, badge_y, badge_size)

generate_splash_icon(size) ==
    LET notebook_size == IntMul(size, F_0_35)
        nb == draw_notebook(SplashCanvas(size), size \div 2, size \div 2,
                            notebook_size, WHITE)
        badge_x == SplashBadgeCenter(size)
        badge_y == SplashBadgeCenter(size)
        badge_size == IntMul(size, F_0_09)
    IN  draw_lock_badge(nb, badge_x, badge_y, badge_size)

(***************************************************************************)
(* The script run: the import guard (lines 7-13) and main (lines 127-158). *)
(***************************************************************************)
APP_PATH == "icon/app_icon.png"
FG_PATH == "icon/app_icon_foreground.png"
SPLASH_PATH == "splash/splash_icon.png"

\* Printed lines, without their decorative symbols.
MSG_NO_PILLOW == "Error: Pillow library not found."
MSG_INSTALL == "Install it with: pip install pillow"
MSG_HEADER == "Generating Encrypted Notebook icons..."
MSG_APP == "Generating app_icon.png (1024x1024)..."
MSG_FG == "Generating app_icon_foreground.png (1024x1024)..."
MSG_SPLASH == "Generating splash_icon.png (512x512)..."
MSG_SUCCESS == "All icons generated successfully!"
MSG_NEXT_STEPS ==
    <<"Next steps:", "1. Run: flutter pub get",
      "2. Run: flutter pub run flutter_launcher_icons",
      "3. Run: flutter pub run flutter_native_splash:create",
      "4. Run: flutter run">>

\* main with the directory ensured before anything is saved.
MainStepsDirFirst == <<"makedirs", "save_app", "save_fg", "save_splash">>

\* The steps of main that touch the filesystem, in call order.
MainSteps == <<"save_app", "save_fg", "makedirs", "save_splash">>

StepIndex(step) == CHOOSE i \in 1 .. Len(MainSteps) : MainSteps[i] = step

AfterStep(step) ==
    IF StepIndex(step) = Len(MainSteps) THEN "summary"
    ELSE MainSteps[StepIndex(step) + 1]

\* An except clause that prints and falls through to the rest of the script.
ImportErrorFallsThrough == "main"

\* Where the import guard's except clause leaves the process: exit(1).
ImportErrorNext == "exited"

\* The image each save step writes, and where.
StepImage(step) ==
    CASE step = "save_app" -> generate_app_icon(1024)
      [] step = "save_fg" -> generate_foreground_icon(1024)
      [] step = "save_splash" -> generate_splash_icon(512)

\* The splash icon saved next to the script.
SplashTargetInScriptDir == "icon/splash_icon.png"

SplashTarget == SPLASH_PATH

StepPath(step) ==
    CASE step = "save_app" -> APP_PATH
      [] step = "save_fg" -> FG_PATH
      [] step = "save_splash" -> SplashTarget

StepMessage(step) ==
    CASE step = "save_app" -> <<MSG_APP>>
      [] step = "save_fg" -> <<MSG_FG>>
      [] step = "makedirs" -> <<MSG_SPLASH>>
      [] step = "save_splash" -> <<>>

\* What Image.save puts in the file: the PNG encoding of the image.
Png(img) == [format |-> "PNG", image |-> img]

\* A file that was there before any run, and one a failed save left behind.
OldContent == [format |-> "old", image |-> ImageNew("none", 0, <<>>)]

PartialContent == [format |-> "partial", image |-> ImageNew("none", 0, <<>>)]

WriteFile(fs, path, content) ==
    [p \in DOMAIN fs \cup {path} |-> IF p = path THEN content ELSE fs[p]]

\* os.makedirs without exist_ok: raises on anything that is there.
MakedirsRaisesIfExists(at) == at # "absent"

\* os.makedirs(splash_dir, exist_ok=True) raises on what is at the path
\* whatever the environment does: only when it is there and no directory.
MakedirsRaises(at) == at = "file"

NoFailure == [step |-> "none", error |-> "none"]

NoCall == [fn |-> "none", size |-> 0, img |-> ImageNew("none", 0, <<>>)]

NoBadge == [x |-> 0, y |-> 0, size |-> 0, img |-> ImageNew("none", 0, <<>>)]

Running == pc \notin {"done", "crashed", "exited"}

\* Filesystems a run can start from: any of the outputs may be there
\* already, the splash icon only inside an existing splash directory.
InitialFiles(dir) ==
    {fs \in UNION {[ps -> {OldContent}] : ps \in SUBSET {APP_PATH, FG_PATH, SPLASH_PATH}} :
        SPLASH_PATH \in DOMAIN fs => dir = "dir"}

NoCaller == first = NoCall /\ last = NoCall /\ ncalls = 0 /\ badge = NoBadge

Init ==
    /\ pc = "start"
    /\ pillow \in BOOLEAN
    /\ splashDir \in {"absent", "dir", "file"}
    /\ files \in InitialFiles(splashDir)
    /\ written = <<>>
    /\ stdout = <<>>
    /\ exitCode = -1
    /\ failure = NoFailure
    /\ runs = 1
    /\ snapshot = [files |-> files, splashDir |-> splashDir, after |-> "none"]
    /\ NoCaller

callerVars == <<first, last, ncalls, badge>>

\* Lines 7-13: the guarded import; on ImportError two lines and exit(1).
ImportGuard ==
    /\ pc = "start"
    /\ IF pillow
       THEN /\ pc' = "main"
            /\ UNCHANGED <<stdout, exitCode, failure>>
       ELSE /\ stdout' = stdout \o <<MSG_NO_PILLOW, MSG_INSTALL>>
            /\ pc' = ImportErrorNext
            /\ exitCode' = IF ImportErrorNext = "exited" THEN 1 ELSE exitCode
            /\ failure' = [step |-> "import", error |-> "ImportError"]
    /\ UNCHANGED <<pillow, splashDir, files, written, runs, snapshot, callerVars>>

\* Lines 157-158, 129-131: main is entered and prints its header.
EnterMain ==
    /\ pc = "main"
    /\ stdout' = stdout \o <<MSG_HEADER>>
    /\ pc' = MainSteps[1]
    /\ UNCHANGED <<pillow, splashDir, files, written, exitCode, failure, runs,
                   snapshot, callerVars>>

\* An unhandled exception at a step: traceback, exit status 1.
Crash(step, error) ==
    /\ pc' = "crashed"
    /\ exitCode' = 1
    /\ failure' = [step |-> step, error |-> error]

\* Lines 134-136, 139-141, 148: generate one icon and save it.  The save
\* succeeds or raises OSError; a save that raises leaves its target as it
\* was or partly written.
Save(step) ==
    /\ pc = step
    /\ step \in {"save_app", "save_fg", "save_splash"}
    /\ stdout' = stdout \o StepMessage(step)
    /\ \E ok \in BOOLEAN :
         IF ok /\ (step = "save_splash" => splashDir = "dir")
         THEN /\ files' = WriteFile(files, StepPath(step), Png(StepImage(step)))
              /\ written' = Append(written, StepPath(step))
              /\ pc' = AfterStep(step)
              /\ UNCHANGED <<exitCode, failure>>
         ELSE /\ Crash(step, "OSError")
              /\ \E partial \in BOOLEAN :
                   files' = IF partial /\ (step = "save_splash" => splashDir = "dir")
                            THEN WriteFile(files, StepPath(step), PartialContent)
                            ELSE files
              /\ UNCHANGED written
    /\ UNCHANGED <<pillow, splashDir, runs, snapshot, callerVars>>

\* Lines 144-147: generate the splash icon, then os.makedirs(exist_ok=True).
Makedirs ==
    /\ pc = "makedirs"
    /\ stdout' = stdout \o StepMessage("makedirs")
    /\ IF MakedirsRaises(splashDir)
       THEN Crash("makedirs", "FileExistsError") /\ UNCHANGED splashDir
       ELSE IF splashDir = "dir"
       THEN /\ pc' = AfterStep("makedirs")
            /\ UNCHANGED <<splashDir, exitCode, failure>>
       ELSE \E ok \in BOOLEAN :
              IF ok
              THEN /\ splashDir' = "dir"
                   /\ pc' = AfterStep("makedirs")
                   /\ UNCHANGED <<exitCode, failure>>
              ELSE Crash("makedirs", "OSError") /\ UNCHANGED splashDir
    /\ UNCHANGED <<pillow, files, written, runs, snapshot, callerVars>>

\* Lines 150-155: the success line and the next steps; main returns.
Summary ==
    /\ pc = "summary"
    /\ stdout' = stdout \o <<MSG_SUCCESS>> \o MSG_NEXT_STEPS
    /\ pc' = "done"
    /\ exitCode' = 0
    /\ UNCHANGED <<pillow, splashDir, files, written, failure, runs, snapshot,
                   callerVars>>

\* The script is run again, on the filesystem the last run left.
Rerun ==
    /\ ~Running
    /\ runs < MaxRuns
    /\ runs' = runs + 1
    /\ snapshot' = [files |-> files, splashDir |-> splashDir, after |-> pc]
    /\ pc' = "start"
    /\ written' = <<>>
    /\ stdout' = <<>>
    /\ exitCode' = -1
    /\ failure' = NoFailure
    /\ UNCHANGED <<pillow, splashDir, files, callerVars>>

Next ==
    \/ ImportGuard
    \/ EnterMain
    \/ \E step \in {"save_app", "save_fg", "save_splash"} : Save(step)
    \/ Makedirs
    \/ Summary
    \/ Rerun

Spec == Init /\ [][Next]_vars

(***************************************************************************)
(* The module imported by a caller (the __main__ guard of line 157 keeps   *)
(* main from running): the caller calls the generators and the renderer.   *)
(***************************************************************************)
Generators == {"app", "foreground", "splash"}

Generate(fn, size) ==
    CASE fn = "app" -> generate_app_icon(size)
      [] fn = "foreground" -> generate_foreground_icon(size)
      [] fn = "splash" -> generate_splash_icon(size)

SmallSizes == (1 .. MaxSmallSize) \cup {BigSize}

ImageSizes == (1 .. MaxImageSize) \cup {BigSize}

AllSizes == 1 .. MaxSize

scriptVars == <<pc, pillow, splashDir, files, written, stdout, exitCode,
                failure, runs, snapshot>>

InitCaller ==
    /\ pc = "imported"
    /\ pillow = TRUE
    /\ splashDir = "absent"
    /\ files = <<>>
    /\ written = <<>>
    /\ stdout = <<>>
    /\ exitCode = -1
    /\ failure = NoFailure
    /\ runs = 0
    /\ snapshot = [files |-> files, splashDir |-> splashDir, after |-> "none"]
    /\ NoCaller

\* One call fn(size); the caller keeps the image it returns.
Call(fn, size) ==
    /\ badge = NoBadge
    /\ LET c == [fn |-> fn, size |-> size, img |-> Generate(fn, size)]
       IN  /\ last' = c
           /\ first' = IF ncalls = 0 THEN c ELSE first
    /\ ncalls' = ncalls + 1
    /\ UNCHANGED <<scriptVars, badge>>

\* A caller that makes up to MaxCalls calls, in any order, of a few sizes.
CallSmall ==
    /\ ncalls < MaxCalls
    /\ \E fn \in Generators, size \in SmallSizes : Call(fn, size)

\* A caller that makes one call and looks at every pixel of the image.
CallOne ==
    /\ ncalls = 0
    /\ \E fn \in Generators, size \in ImageSizes : Call(fn, size)

\* A caller that makes one call, of any size.
CallAny ==
    /\ ncalls = 0
    /\ \E fn \in Generators, size \in AllSizes : Call(fn, size)

BadgeCenters == {0, CanvasSide \div 3, CanvasSide - 1}

\* draw_lock_badge(draw, x, y, size) on a white canvas of the caller's.
DrawBadge ==
    /\ ncalls = 0
    /\ badge = NoBadge
    /\ \E x \in BadgeCenters, y \in BadgeCenters, size \in 0 .. MaxBadge :
         badge' = [x |-> x, y |-> y, size |-> size,
                   img |-> draw_lock_badge(ImageNew("RGB", CanvasSide, WHITE),
                                           x, y, size)]
    /\ UNCHANGED <<scriptVars, first, last, ncalls>>

NextRender == CallSmall

SpecRender == InitCaller /\ [][NextRender]_vars

NextImage == CallOne

SpecImage == InitCaller /\ [][NextImage]_vars

NextGeom == CallAny \/ DrawBadge

SpecGeom == InitCaller /\ [][NextGeom]_vars

(***************************************************************************)
(* Properties of the script run, checked under Spec.                       *)
(***************************************************************************)
ThreeOutputs == <<APP_PATH, FG_PATH, SPLASH_PATH>>

Printed(line) == \E i \in 1 .. Len(stdout) : stdout[i] = line

ExpectedContent(path) ==
    CASE path = APP_PATH -> Png(generate_app_icon(1024))
      [] path = FG_PATH -> Png(generate_foreground_icon(1024))
      [] path = SPLASH_PATH -> Png(generate_splash_icon(512))

\* C1: a run in which the import succeeds and no filesystem operation fails
\* ends having written exactly app_icon.png and app_icon_foreground.png in
\* the script's directory and splash_icon.png in the sibling splash/
\* directory, which exists afterwards even if it did not before; no other
\* file is written.
C1_ThreeFilesWritten ==
    pc = "done" =>
        /\ exitCode = 0
        /\ written = ThreeOutputs
        /\ DOMAIN files = {APP_PATH, FG_PATH, SPLASH_PATH}
        /\ \A p \in DOMAIN files : files[p] = ExpectedContent(p)
        /\ splashDir = "dir"

C1_Witness ==
    /\ pc = "done"
    /\ runs = 1
    /\ snapshot.splashDir = "absent"
    /\ snapshot.files = <<>>
    /\ splashDir = "dir"
    /\ Len(written) = 3

\* C2: when the imaging library cannot be imported the run prints the two
\* remediation lines and exits with status 1; main is never entered, no
\* directory is created and no file is written.
C2_MissingDependency ==
    ~pillow =>
        /\ pc \in {"start", "exited"}
        /\ written = <<>>
        /\ files = snapshot.files
        /\ splashDir = snapshot.splashDir
        /\ ~Printed(MSG_HEADER)
        /\ pc = "exited" =>
              /\ exitCode = 1
              /\ stdout = <<MSG_NO_PILLOW, MSG_INSTALL>>
              /\ failure.error = "ImportError"

C2_Witness ==
    /\ ~pillow
    /\ pc = "exited"
    /\ exitCode = 1
    /\ snapshot.splashDir = "absent"

\* The saves that precede a step of main, as the claim orders them.
SavedBefore(step) ==
    CASE step = "save_app" -> <<>>
      [] step = "save_fg" -> <<APP_PATH>>
      [] step = "makedirs" -> <<APP_PATH, FG_PATH>>
      [] step = "save_splash" -> <<APP_PATH, FG_PATH>>
      [] OTHER -> <<>>

\* C3: main saves app_icon.png, then app_icon_foreground.png, then ensures
\* splash/, then saves splash_icon.png, and stops at the first step that
\* fails: the files saved before it are still on disk with their content,
\* no later step has run (nothing further is saved, the directory is not
\* created by a run that failed before ensuring it) and the success line is
\* not printed.
C3_StopsAtFirstFailure ==
    /\ written = SubSeq(ThreeOutputs, 1, Len(written))
    /\ \A i \in 1 .. Len(written) : /\ written[i] \in DOMAIN files
                                    /\ files[written[i]] = ExpectedContent(written[i])
    /\ Len(written) = 3 => splashDir = "dir"
    /\ pc = "crashed" =>
          /\ failure.step \in {"save_app", "save_fg", "makedirs", "save_splash"}
          /\ written = SavedBefore(failure.step)
          /\ failure.step # "save_splash" => splashDir = snapshot.splashDir
          /\ failure.step \in {"save_app", "save_fg"} =>
                \A p \in DOMAIN files \ {APP_PATH, FG_PATH} :
                    p \in DOMAIN snapshot.files /\ files[p] = snapshot.files[p]
          /\ ~Printed(MSG_SUCCESS)
          /\ exitCode = 1

C3_Witness ==
    /\ pc = "crashed"
    /\ failure.step = "save_splash"
    /\ written = <<APP_PATH, FG_PATH>>
    /\ snapshot.splashDir = "absent"
    /\ splashDir = "dir"
    /\ files[APP_PATH] = ExpectedContent(APP_PATH)
    /\ files[FG_PATH] = ExpectedContent(FG_PATH)

\* C10: a run started after a successful run does not fail on the directory
\* or the files that are already there, and when it succeeds it leaves the
\* same three files with the same content, and the same directory, as the
\* run before it.
C10_RerunIdempotent ==
    (runs >= 2 /\ snapshot.after = "done") =>
        /\ failure.error # "FileExistsError"
        /\ pc = "done" =>
              /\ written = ThreeOutputs
              /\ files = snapshot.files
              /\ splashDir = snapshot.splashDir

C10_Witness ==
    /\ runs = 2
    /\ snapshot.after = "done"
    /\ pc = "done"
    /\ DOMAIN files = {APP_PATH, FG_PATH, SPLASH_PATH}

(***************************************************************************)
(* Properties of the geometry, checked under SpecGeom.                     *)
(***************************************************************************)
\* The shapes of a generated icon, in painting order: the five of
\* draw_notebook, then the four of draw_lock_badge.
NotebookBody(img) == img.shapes[1]

BadgeCircle(img) == img.shapes[6]

BadgeLockBody(img) == img.shapes[7]

\* The (x, y) draw_lock_badge was given: the centre of the badge circle's
\* box [x - size, y - size, x + size, y + size].
CenterX(img) == (BadgeCircle(img).x0 + BadgeCircle(img).x1) \div 2

CenterY(img) == (BadgeCircle(img).y0 + BadgeCircle(img).y1) \div 2

Abs(v) == IF v < 0 THEN -v ELSE v

\* C4 as stated: the badge centre is the integer nearest to 0.7 * s (app
\* icon) and to 0.68 * s (splash icon), in x and in y.
C4_CenterRounded ==
    /\ last.fn = "app" =>
          /\ Abs(10 * CenterX(last.img) - 7 * last.size) <= 5
          /\ Abs(10 * CenterY(last.img) - 7 * last.size) <= 5
    /\ last.fn = "splash" =>
          /\ Abs(100 * CenterX(last.img) - 68 * last.size) <= 50
          /\ Abs(100 * CenterY(last.img) - 68 * last.size) <= 50

\* C4, amended: the badge centre is the product truncated, not rounded: for
\* the app icon c <= 0.7 * s <= c + 1, with 0.7 * s = c + 1 only where the
\* double product of an integral 0.7 * s falls just below it; for the
\* splash icon c <= 0.68 * s < c + 1; x and y are the same.
C4_CenterTruncated ==
    /\ last.fn = "app" =>
          LET c == CenterX(last.img)
          IN  /\ CenterY(last.img) = c
              /\ 10 * c <= 7 * last.size
              /\ 7 * last.size <= 10 * (c + 1)
    /\ last.fn = "splash" =>
          LET c == CenterX(last.img)
          IN  /\ CenterY(last.img) = c
              /\ 100 * c <= 68 * last.size
              /\ 68 * last.size < 100 * (c + 1)

C4_Witness ==
    /\ last.fn = "app"
    /\ last.size = 1024
    /\ CenterX(last.img) = 716
    /\ CenterY(last.img) = 716

\* The lock body of a direct draw_lock_badge call on an empty canvas.
DirectLockBody == badge.img.shapes[2]

\* C8 as stated: the lock body's top edge is size/4 above center_y, its
\* height is 0.3 * size, its width size/2, and it is horizontally centred
\* on center_x, each to within two pixels.
C8_BodyTopQuarterSize ==
    badge # NoBadge =>
        LET b == DirectLockBody
        IN  /\ Abs(4 * (badge.y - b.y0) - badge.size) <= 8
            /\ Abs(10 * (b.y1 - b.y0) - 3 * badge.size) <= 10
            /\ Abs(2 * (b.x1 - b.x0) - badge.size) <= 2
            /\ Abs(b.x0 + b.x1 - 2 * badge.x) <= 1

\* C8, amended: the lock body's top edge is a quarter of the lock height
\* 0.6 * size, that is 0.15 * size, above center_y; its height is
\* 0.3 * size, its width size/2, and it is horizontally centred on
\* center_x, each up to the truncations of the integer arithmetic.
C8_BodyTopQuarterHeight ==
    badge # NoBadge =>
        LET b == DirectLockBody
            up == badge.y - b.y0
            h == b.y1 - b.y0
            w == b.x1 - b.x0
        IN  /\ b.kind = "rect" /\ b.ink = WHITE
            /\ 20 * up <= 3 * badge.size /\ 3 * badge.size <= 20 * up + 25
            /\ 10 * h <= 3 * badge.size /\ 3 * badge.size <= 10 * h + 10
            /\ 2 * w <= badge.size /\ badge.size <= 2 * w + 1
            /\ b.x0 + b.x1 - 2 * badge.x \in {0, 1}

C8_Witness ==
    /\ badge # NoBadge
    /\ badge.size = 76
    /\ badge.y - DirectLockBody.y0 = 11
    /\ DirectLockBody.y1 - DirectLockBody.y0 = 22
    /\ DirectLockBody.x1 - DirectLockBody.x0 = 38

\* The painting order of draw_lock_badge: circle, lock body, shackle,
\* keyhole, read off the last four shapes of an image.
BadgeOrder(img) ==
    LET n == Len(img.shapes)
        rgb(sh) == SubSeq(sh.ink, 1, 3)
    IN  /\ img.shapes[n - 3].kind = "ellipse" /\ rgb(img.shapes[n - 3]) = GREEN
        /\ img.shapes[n - 2].kind = "rect" /\ rgb(img.shapes[n - 2]) = WHITE
        /\ img.shapes[n - 1].kind = "arc" /\ rgb(img.shapes[n - 1]) = WHITE
        /\ img.shapes[n].kind = "ellipse" /\ rgb(img.shapes[n]) = GREEN

\* After draw_lock_badge the centre pixel is green although the white lock
\* body was painted over it.
DirectBadgeGreen ==
    badge # NoBadge =>
        /\ BadgeOrder(badge.img)
        /\ Covers(DirectLockBody, badge.x, badge.y)
        /\ PixelAt(badge.img, badge.x, badge.y) = GREEN

Alpha(img, px, py) == PixelAt(img, px, py)[4]

Rgb(img, px, py) == SubSeq(PixelAt(img, px, py), 1, 3)

\* C5: the app icon has no transparency channel; in the foreground and the
\* splash icon every pixel no shape covers is fully transparent and every
\* pixel a shape covers is fully opaque.
C5_Transparency ==
    /\ last.fn = "app" =>
          /\ last.img.mode = "RGB"
          /\ \A p \in Pixels(last.img) : Len(PixelAt(last.img, p[1], p[2])) = 3
    /\ last.fn \in {"foreground", "splash"} =>
          /\ last.img.mode = "RGBA"
          /\ \A p \in Pixels(last.img) :
                Alpha(last.img, p[1], p[2]) =
                    IF Covered(last.img, p[1], p[2]) THEN 255 ELSE 0

C5_Witness ==
    /\ last.fn = "foreground"
    /\ last.size = BigSize
    /\ \E p \in Pixels(last.img) : Alpha(last.img, p[1], p[2]) = 0
    /\ \E p \in Pixels(last.img) : Rgb(last.img, p[1], p[2]) = GREEN
    /\ \E p \in Pixels(last.img) : Rgb(last.img, p[1], p[2]) = LINE_GREY

SamePixels(a, b) ==
    /\ a.mode = b.mode
    /\ a.size = b.size
    /\ \A p \in Pixels(a) : PixelAt(a, p[1], p[2]) = PixelAt(b, p[1], p[2])

C7_SameGeometry ==
    (first.fn = "app" /\ last.fn = "foreground" /\ first.size = last.size) =>
        \A p \in Pixels(first.img) :
            LET covered == Covered(first.img, p[1], p[2])
            IN  /\ Covered(last.img, p[1], p[2]) = covered
                /\ ~covered => /\ PixelAt(first.img, p[1], p[2]) = BG_COLOR
                               /\ Alpha(last.img, p[1], p[2]) = 0
                /\ covered => PixelAt(first.img, p[1], p[2]) =
                                  Rgb(last.img, p[1], p[2])

C7_Witness ==
    /\ first.fn = "app"
    /\ last.fn = "foreground"
    /\ first.size = BigSize
    /\ last.size = BigSize
    /\ PixelAt(first.img, CenterX(first.img), CenterY(first.img)) = GREEN
    /\ PixelAt(first.img, 0, 0) = BG_COLOR

====
